---- MODULE Spec2Model ----
(***************************************************************************)
(* Hospital-Manager: the announcement engine (utils/announcement.py), the  *)
(* record store it polls (utils/data_manager.py) and the OPD screen        *)
(* handlers that complete visits (ui/opd_management.py).                   *)
(*                                                                         *)
(* The UI thread runs one handler at a time; every background loop thread  *)
(* started by start_announcement_service() interleaves with it between the *)
(* steps named below.                                                      *)
(***************************************************************************)
EXTENDS Integers, Sequences, FiniteSets, TLC

\* ---------------------------------------------------------------- bounds
MaxAppointments == 2    \* appointments ever stored
MaxQueued == 3      \* patient ids the queue is called with
MaxCompleted == 2   \* records completed_today holds
MaxVisits == 1      \* OPD visits ever stored
MaxPatients == 1    \* patients the clinic can register
MaxThreads == 2     \* loop threads alive at the same time
MaxCount == 2       \* the delivery counters saturate here
MaxItems == 3       \* items in the announcement queue
MaxArrivals == 4    \* add_to_queue calls told apart
MaxClock == 3       \* readings of the clock, one per second

\* ------------------------------------------------------ program constants
DefaultInterval == 30
MinInterval == 10

VisitNums == 1..MaxVisits
PatientNums == 1..MaxPatients
ThreadIds == 1..MaxThreads
NoThread == 0

\* Patient.generate_patient_id / OPDVisit.generate_visit_id: a letter and the
\* digits of the clock reading.
generate_patient_id(n) == "P" \o ToString(n)
generate_visit_id(n) == "V" \o ToString(n)

PatientIds == {generate_patient_id(n) : n \in PatientNums}

VARIABLES
    opd_visits,             \* opd_visits.json: the list of stored visits
    patients,               \* patients.json: ids of the stored patients
    is_running,             \* AnnouncementSystem.is_running
    announcement_thread,    \* AnnouncementSystem.announcement_thread
    announced_patients,     \* AnnouncementSystem.announced_patients
    announcement_interval,  \* AnnouncementSystem.announcement_interval
    tts_available,          \* AnnouncementSystem.tts_available
    thr,                    \* the loop threads: position and locals
    ui_pc,                  \* the UI thread: idle, or inside stop's join
    poll_count,             \* display sink, per dedup key: poll messages
                            \* accepted since the last clear (saturating)
    screen_count,           \* display sink, per visit: completion messages
                            \* received from the OPD screen (saturating)
    manual_count,           \* display sink: messages received from the
                            \* manual operations (modulo ManualMod)
    manual_calls,           \* calls of the manual operations (modulo ManualMod)
    last_call,              \* the last of start/stop the UI thread completed
    last_request,           \* the last interval asked for, if any
    reannounce,             \* keys the poll announced before the last clear
                            \* whose visit stayed eligible ever since
    appointments,           \* appointments.json: the list of stored appointments
    available_slots,        \* the last get_available_slots call and its result
    queue,                  \* OPDQueue.queue
    completed_today,        \* OPDQueue.completed_today
    op,                     \* the last queue call, its argument and result
    now,                    \* datetime.now(), in seconds
    settings,               \* settings.json
    announcement_queue      \* AnnouncementQueue.queue

vars == <<opd_visits, patients, is_running, announcement_thread,
          announced_patients, announcement_interval, tts_available, thr,
          ui_pc, poll_count, screen_count, manual_count, manual_calls,
          last_call, last_request, reannounce, appointments,
          available_slots, queue, completed_today, op, now, settings,
          announcement_queue>>

\* The appointment book and the OPD screen's queue.
book == <<appointments, available_slots>>
opd_queue == <<queue, completed_today, op>>

\* The clock, the settings file and the announcement queue helper.
extras == <<now, settings, announcement_queue>>

store == <<opd_visits, patients, book, opd_queue, extras>>
engine == <<is_running, announcement_thread, announced_patients,
            announcement_interval, tts_available>>
sinks == <<poll_count, screen_count, manual_count>>
history == <<manual_calls, last_call, last_request>>
ghosts == <<poll_count, screen_count, manual_count, manual_calls, last_call,
            last_request, reannounce>>

Bump(c) == IF c < MaxCount THEN c + 1 ELSE MaxCount

NoSink == [display |-> "none", speech |-> "none"]

\* A thread that does not exist (never started, or ended).
NoLoop == [pc |-> "none", completed_visits |-> <<>>, sink |-> NoSink,
           fresh |-> FALSE, stop_asleep |-> FALSE]

Alive(t) == thr[t].pc # "none"
InCycle(t) == thr[t].pc \in {"fetch", "scan", "announce", "add"}

VisitIds == {generate_visit_id(n) : n \in VisitNums}
Keys == {pid \o "_" \o vid : pid \in PatientIds, vid \in VisitIds}
ManualMod == MaxCount + 1

\* AnnouncementSystem.__init__
ServiceInit ==
    /\ is_running = FALSE
    /\ announcement_thread = NoThread
    /\ announced_patients = {}
    /\ announcement_interval = DefaultInterval
    /\ tts_available \in BOOLEAN
    /\ thr = [t \in ThreadIds |-> NoLoop]
    /\ ui_pc = "idle"
    /\ manual_count = 0
    /\ manual_calls = 0
    /\ last_call = "none"
    /\ last_request = <<>>
    /\ reannounce = {}

\* The engine over a store with patients and no visit yet.
EngineInit ==
    /\ opd_visits = <<>>
    /\ patients \in SUBSET PatientIds
    /\ poll_count = [k \in Keys |-> 0]
    /\ screen_count = [v \in VisitIds |-> 0]
    /\ ServiceInit

\* DoctorSchedule.DEFAULT_DOCTORS as the class defines it.
DEFAULT_DOCTORS ==
    << [name |-> "Dr. Smith", department |-> "General Medicine",
        slots |-> <<"09:00", "10:00", "11:00", "14:00", "15:00", "16:00">>],
       [name |-> "Dr. Johnson", department |-> "Cardiology",
        slots |-> <<"09:30", "10:30", "11:30", "14:30", "15:30">>],
       [name |-> "Dr. Williams", department |-> "Pediatrics",
        slots |-> <<"08:00", "09:00", "10:00", "11:00", "14:00", "15:00">>],
       [name |-> "Dr. Brown", department |-> "Orthopedics",
        slots |-> <<"10:00", "11:00", "14:00", "15:00", "16:00">>],
       [name |-> "Dr. Davis", department |-> "Dermatology",
        slots |-> <<"09:00", "10:00", "11:00", "15:00", "16:00">>] >>

\* No get_available_slots call has been made yet.
NoQuery == [doctor_name |-> "", date |-> "", slots |-> <<>>, called |-> FALSE]

\* No OPDQueue call has been made yet.
NoOp == [name |-> "none", arg |-> "", position |-> 0, next |-> <<>>,
         result |-> <<>>, tick |-> FALSE]

\* An appointment book with nothing stored and nothing asked.
BookInit ==
    /\ appointments = <<>>
    /\ available_slots = NoQuery

\* OPDQueue.__init__
QueueInit ==
    /\ queue = <<>>
    /\ completed_today = <<>>
    /\ op = NoOp

\* DataManager._initialize_data_files: the settings a new data directory
\* gets.
DefaultSettings ==
    [announcement_enabled |-> TRUE, announcement_interval |-> DefaultInterval]

\* The clock at its first reading, the settings as first written, and
\* AnnouncementQueue.__init__.
DeskInit ==
    /\ now = 1
    /\ settings = DefaultSettings
    /\ announcement_queue = <<>>

Init == EngineInit /\ BookInit /\ QueueInit /\ DeskInit

\* ------------------------------------------------------------ record store
\* DataManager.get_patient_by_id: the stored patient, or None.
get_patient_by_id(pid) == pid \in patients

\* DataManager.get_opd_visit_by_id as an index into the stored list (0: None).
VisitIndex(vid) ==
    IF \E i \in 1..Len(opd_visits) : opd_visits[i].visit_id = vid
    THEN CHOOSE i \in 1..Len(opd_visits) :
            /\ opd_visits[i].visit_id = vid
            /\ \A j \in 1..(i - 1) : opd_visits[j].visit_id # vid
    ELSE 0

\* DataManager.get_todays_opd_visits: the stored visits dated today, in
\* stored order.
IsToday(visit) == visit.today
get_todays_opd_visits == SelectSeq(opd_visits, IsToday)

IsCompleted(visit) == visit.status = "Completed"

\* -------------------------------------------------------- the poll cycle
\* announcement_key = f"{visit.patient_id}_{visit.visit_id}"
announcement_key(visit) == visit.patient_id \o "_" \o visit.visit_id

\* The keys of the visits a poll cycle announces: stored, dated today,
\* Completed, patient on file.
EligibleKeys(visits, pats) ==
    {announcement_key(visits[i]) : i \in
        {j \in 1..Len(visits) : /\ visits[j].today
                                /\ visits[j].status = "Completed"
                                /\ visits[j].patient_id \in pats}}

Step(t, rec) == thr' = [thr EXCEPT ![t] = rec]

\* while self.is_running: one read of the flag at the top of each turn; the
\* thread ends when it reads False.
LoopCheck(t) ==
    /\ thr[t].pc = "check"
    /\ IF is_running
       THEN Step(t, [thr[t] EXCEPT !.pc = "fetch", !.fresh = TRUE,
                                   !.stop_asleep = FALSE])
       ELSE Step(t, NoLoop)
    /\ UNCHANGED <<store, engine, ui_pc, ghosts>>

\* A loop without the except clause: the exception ends the thread.
Abandon_EndsThread(t, outcome) ==
    /\ Step(t, NoLoop)
    /\ reannounce' = IF thr[t].fresh THEN {} ELSE reannounce

\* An exception leaves _check_and_announce_completed_patients: the handler
\* of the loop catches it and sleeps 5 seconds.
Abandon(t, outcome) ==
    /\ Step(t, [thr[t] EXCEPT !.pc = "err_sleep", !.sink = outcome,
                              !.completed_visits = <<>>])
    /\ reannounce' = IF thr[t].fresh THEN {} ELSE reannounce

\* A cycle that takes today's visits whatever their status.
Fetch_any_status(t) ==
    /\ thr[t].pc = "fetch"
    /\ \/ /\ Step(t, [thr[t] EXCEPT
                !.pc = "scan",
                !.completed_visits = get_todays_opd_visits])
          /\ UNCHANGED reannounce
       \/ Abandon(t, NoSink)
    /\ UNCHANGED <<store, engine, ui_pc, sinks, history>>

\* today_visits = get_todays_opd_visits(); completed_visits = [...]: one
\* read of the visits file, which can raise.
Fetch(t) ==
    /\ thr[t].pc = "fetch"
    /\ \/ /\ Step(t, [thr[t] EXCEPT
                !.pc = "scan",
                !.completed_visits = SelectSeq(get_todays_opd_visits, IsCompleted)])
          /\ UNCHANGED reannounce
       \/ Abandon(t, NoSink)
    /\ UNCHANGED <<store, engine, ui_pc, sinks, history>>

\* A scan that marks the visit of an unresolved patient as announced.
Scan_marks_unresolved(t) ==
    /\ thr[t].pc = "scan"
    /\ LET todo == thr[t].completed_visits IN
       IF todo = <<>>
       THEN Step(t, [thr[t] EXCEPT !.pc = "sleep"])
            /\ UNCHANGED <<reannounce, announced_patients>>
       ELSE IF announcement_key(Head(todo)) \in announced_patients
       THEN Step(t, [thr[t] EXCEPT !.completed_visits = Tail(todo)])
            /\ UNCHANGED <<reannounce, announced_patients>>
       ELSE \/ /\ IF get_patient_by_id(Head(todo).patient_id)
                  THEN /\ Step(t, [thr[t] EXCEPT !.pc = "announce"])
                       /\ UNCHANGED announced_patients
                  ELSE /\ Step(t, [thr[t] EXCEPT !.completed_visits = Tail(todo)])
                       /\ announced_patients' = announced_patients \cup
                                {announcement_key(Head(todo))}
               /\ UNCHANGED reannounce
            \/ Abandon(t, NoSink) /\ UNCHANGED announced_patients
    /\ UNCHANGED <<store, is_running, announcement_thread,
                   announcement_interval, tts_available, ui_pc, sinks, history>>

\* The head of the for loop: the membership test on the announced set and
\* the patient lookup, which can raise. An exhausted list ends the cycle.
Scan(t) ==
    /\ thr[t].pc = "scan"
    /\ LET todo == thr[t].completed_visits IN
       IF todo = <<>>
       THEN Step(t, [thr[t] EXCEPT !.pc = "sleep"]) /\ UNCHANGED reannounce
       ELSE IF announcement_key(Head(todo)) \in announced_patients
       THEN Step(t, [thr[t] EXCEPT !.completed_visits = Tail(todo)])
            /\ UNCHANGED reannounce
       ELSE \/ /\ IF get_patient_by_id(Head(todo).patient_id)
                  THEN Step(t, [thr[t] EXCEPT !.pc = "announce"])
                  ELSE Step(t, [thr[t] EXCEPT !.completed_visits = Tail(todo)])
               /\ UNCHANGED reannounce
            \/ Abandon(t, NoSink)
    /\ UNCHANGED <<store, engine, ui_pc, sinks, history>>

\* _announce_patient_completion(patient.name, visit.doctor_name): the message
\* goes to the callback first. A raising callback propagates: speech is not
\* reached, nor is the caller's next statement. Speech runs only when
\* available, and its errors are caught here.
announce_patient_completion(t, display, speech) ==
    IF display = "raised"
    THEN /\ Abandon(t, [display |-> "raised", speech |-> "none"])
         /\ UNCHANGED poll_count
    ELSE /\ poll_count' = [poll_count EXCEPT
                ![announcement_key(Head(thr[t].completed_visits))] = Bump(@)]
         /\ Step(t, [thr[t] EXCEPT
                !.pc = "add",
                !.sink = [display |-> "ok",
                          speech |-> IF tts_available THEN speech ELSE "skipped"]])
         /\ UNCHANGED reannounce

Announce(t) ==
    /\ thr[t].pc = "announce"
    /\ \E display \in {"ok", "raised"}, speech \in {"ok", "raised"} :
            announce_patient_completion(t, display, speech)
    /\ UNCHANGED <<store, engine, ui_pc, screen_count, manual_count, history>>

\* self.announced_patients.add(announcement_key)
Add(t) ==
    /\ thr[t].pc = "add"
    /\ announced_patients' =
           announced_patients \cup {announcement_key(Head(thr[t].completed_visits))}
    /\ Step(t, [thr[t] EXCEPT !.pc = "scan", !.sink = NoSink,
                              !.completed_visits = Tail(@)])
    /\ UNCHANGED <<store, is_running, announcement_thread,
                   announcement_interval, tts_available, ui_pc, ghosts>>

\* time.sleep(self.announcement_interval) returns: the scheduled wake.
Wake(t) ==
    /\ thr[t].pc = "sleep"
    /\ Step(t, [thr[t] EXCEPT !.pc = "check"])
    /\ reannounce' = IF thr[t].fresh THEN {} ELSE reannounce
    /\ UNCHANGED <<store, engine, ui_pc, sinks, history>>

\* A retry that starts from an empty announced set.
ErrWake_forgets(t) ==
    /\ thr[t].pc = "err_sleep"
    /\ Step(t, [thr[t] EXCEPT !.pc = "check", !.sink = NoSink])
    /\ announced_patients' = {}
    /\ UNCHANGED <<store, is_running, announcement_thread,
                   announcement_interval, tts_available, ui_pc, ghosts>>

\* except Exception: ... time.sleep(5) returns.
ErrWake(t) ==
    /\ thr[t].pc = "err_sleep"
    /\ Step(t, [thr[t] EXCEPT !.pc = "check", !.sink = NoSink])
    /\ UNCHANGED <<store, engine, ui_pc, ghosts>>

announcement_loop(t) ==
    \/ LoopCheck(t)
    \/ Fetch(t)
    \/ Scan(t)
    \/ Announce(t)
    \/ Add(t)
    \/ Wake(t)
    \/ ErrWake(t)

\* ------------------------------------------------- engine, from the UI thread
FreeSlots == {t \in ThreadIds : ~Alive(t)}

\* start_announcement_service(): nothing when the flag is set; else the flag
\* is set and a new thread is started and remembered.
start_announcement_service ==
    /\ ui_pc = "idle"
    /\ last_call' = "start"
    /\ IF is_running
       THEN UNCHANGED <<is_running, thr, announcement_thread>>
       ELSE /\ FreeSlots # {}
            /\ LET t == CHOOSE f \in FreeSlots : \A g \in FreeSlots : f <= g IN
               /\ is_running' = TRUE
               /\ thr' = [thr EXCEPT ![t] = [NoLoop EXCEPT !.pc = "check"]]
               /\ announcement_thread' = t
    /\ UNCHANGED <<store, announced_patients, announcement_interval,
                   tts_available, ui_pc, sinks, manual_calls, last_request,
                   reannounce>>

\* A stop that leaves the flag for the loop to clear.
StopBegin_KeepsFlag ==
    /\ ui_pc = "idle"
    /\ IF announcement_thread # NoThread /\ Alive(announcement_thread)
       THEN ui_pc' = "join" /\ UNCHANGED last_call
       ELSE ui_pc' = "idle" /\ last_call' = "stop"
    /\ thr' = [t \in ThreadIds |->
                 IF thr[t].pc = "sleep"
                 THEN [thr[t] EXCEPT !.stop_asleep = TRUE] ELSE thr[t]]
    /\ UNCHANGED <<store, engine, sinks, manual_calls, last_request,
                   reannounce>>

\* A stop that ends a cycle under way.
StopBegin_Interrupts ==
    /\ ui_pc = "idle"
    /\ is_running' = FALSE
    /\ IF announcement_thread # NoThread /\ Alive(announcement_thread)
       THEN ui_pc' = "join" /\ UNCHANGED last_call
       ELSE ui_pc' = "idle" /\ last_call' = "stop"
    /\ thr' = [t \in ThreadIds |->
                 IF thr[t].pc = "sleep"
                 THEN [thr[t] EXCEPT !.stop_asleep = TRUE]
                 ELSE IF InCycle(t) THEN NoLoop ELSE thr[t]]
    /\ UNCHANGED <<store, announcement_thread, announced_patients,
                   announcement_interval, tts_available, sinks, manual_calls,
                   last_request, reannounce>>

\* stop_announcement_service(), up to the join: the flag is cleared, and the
\* remembered thread is waited for when it is alive.
StopBegin ==
    /\ ui_pc = "idle"
    /\ is_running' = FALSE
    /\ IF announcement_thread # NoThread /\ Alive(announcement_thread)
       THEN ui_pc' = "join" /\ UNCHANGED last_call
       ELSE ui_pc' = "idle" /\ last_call' = "stop"
    /\ thr' = [t \in ThreadIds |->
                 IF thr[t].pc = "sleep"
                 THEN [thr[t] EXCEPT !.stop_asleep = TRUE] ELSE thr[t]]
    /\ UNCHANGED <<store, announcement_thread, announced_patients,
                   announcement_interval, tts_available, sinks, manual_calls,
                   last_request, reannounce>>

\* join(timeout=5) returns: the thread has ended, or 5 seconds have passed
\* with the thread in a call that lasts longer (the sleep of at least 10
\* seconds between cycles, a message being displayed and spoken).
JoinReturns ==
    \/ ~Alive(announcement_thread)
    \/ thr[announcement_thread].pc \in {"sleep", "announce"}

\* stop_announcement_service() returns.
StopReturn ==
    /\ ui_pc = "join"
    /\ JoinReturns
    /\ ui_pc' = "idle"
    /\ last_call' = "stop"
    /\ UNCHANGED <<store, engine, thr, sinks, manual_calls, last_request,
                   reannounce>>

\* clear_announced_patients()
clear_announced_patients ==
    /\ ui_pc = "idle"
    /\ announced_patients' = {}
    /\ poll_count' = [k \in Keys |-> 0]
    /\ reannounce' = {k \in EligibleKeys(opd_visits, patients) :
                        poll_count[k] > 0 \/ k \in reannounce}
    /\ thr' = [t \in ThreadIds |-> [thr[t] EXCEPT !.fresh = FALSE]]
    /\ UNCHANGED <<store, is_running, announcement_thread,
                   announcement_interval, tts_available, ui_pc,
                   screen_count, manual_count, history>>

Max(a, b) == IF a >= b THEN a ELSE b

\* An interval stored as asked, without the floor.
set_announcement_interval_unclamped(interval_seconds) ==
    /\ ui_pc = "idle"
    /\ announcement_interval' = interval_seconds
    /\ last_request' = <<interval_seconds>>
    /\ UNCHANGED <<store, is_running, announcement_thread, announced_patients,
                   tts_available, thr, ui_pc, sinks, manual_calls, last_call,
                   reannounce>>

\* set_announcement_interval(interval_seconds)
set_announcement_interval(interval_seconds) ==
    /\ ui_pc = "idle"
    /\ announcement_interval' = Max(MinInterval, interval_seconds)
    /\ last_request' = <<interval_seconds>>
    /\ UNCHANGED <<store, is_running, announcement_thread, announced_patients,
                   tts_available, thr, ui_pc, sinks, manual_calls, last_call,
                   reannounce>>

\* get_announcement_status()
get_announcement_status ==
    [is_running |-> is_running,
     tts_available |-> tts_available,
     announcement_interval |-> announcement_interval,
     announced_today |-> Cardinality(announced_patients),
     pending_announcements |-> 0]

\* self.announcement_callback(message): the display sink receives one
\* message. (Speech follows; it changes nothing here.)
announcement_callback == manual_count' = (manual_count + 1) % ManualMod

\* One more call of a manual operation has been made.
Called == manual_calls' = (manual_calls + 1) % ManualMod

\* A manual announcement that only a running engine delivers.
add_manual_announcement_if_running(patient_name) ==
    IF is_running THEN announcement_callback ELSE UNCHANGED manual_count

\* add_manual_announcement(patient_name, custom_message)
add_manual_announcement(patient_name) == announcement_callback

\* announce_patient_call(patient_name, room_number)
announce_patient_call(patient_name) == announcement_callback

\* announce_queue_update(patient_name, position): one message, its words
\* chosen by the position.
announce_queue_update(patient_name, position) == announcement_callback

\* test_announcement(test_message)
test_announcement == announcement_callback

\* A manual announcement that marks the patient's visits as announced.
ManualAnnouncement_marks(patient_name) ==
    /\ ui_pc = "idle"
    /\ add_manual_announcement(patient_name)
    /\ Called
    /\ announced_patients' = announced_patients \cup
            {k \in DOMAIN poll_count :
                \E v \in DOMAIN screen_count : k = patient_name \o "_" \o v}
    /\ UNCHANGED <<store, is_running, announcement_thread,
                   announcement_interval, tts_available, thr, ui_pc, poll_count,
                   screen_count, last_call, last_request, reannounce>>

\* The manual operations as the screens call them.
ManualAnnouncement(patient_name) ==
    /\ ui_pc = "idle"
    /\ add_manual_announcement(patient_name)
    /\ Called
    /\ UNCHANGED <<store, engine, thr, ui_pc, poll_count, screen_count,
                   last_call, last_request, reannounce>>

PatientCall(patient_name) ==
    /\ ui_pc = "idle"
    /\ announce_patient_call(patient_name)
    /\ Called
    /\ UNCHANGED <<store, engine, thr, ui_pc, poll_count, screen_count,
                   last_call, last_request, reannounce>>

QueueUpdate(patient_name, position) ==
    /\ ui_pc = "idle"
    /\ announce_queue_update(patient_name, position)
    /\ Called
    /\ UNCHANGED <<store, engine, thr, ui_pc, poll_count, screen_count,
                   last_call, last_request, reannounce>>

TestAnnouncement ==
    /\ ui_pc = "idle"
    /\ test_announcement
    /\ Called
    /\ UNCHANGED <<store, engine, thr, ui_pc, poll_count, screen_count,
                   last_call, last_request, reannounce>>

\* -------------------------------------------------------------- OPD queue
\* Patient.name of the stored patient of an id.
patient_name(pid) == "Name of " \o pid

\* 1-based index of the first occurrence in a list, or 0.
IndexOf(seq, x) ==
    IF \E i \in 1..Len(seq) : seq[i] = x
    THEN CHOOSE i \in 1..Len(seq) :
            seq[i] = x /\ \A j \in 1..(i - 1) : seq[j] # x
    ELSE 0

\* An add_patient without the membership test.
add_patient_unchecked(q, patient_id) == Append(q, patient_id)

\* OPDQueue.add_patient: append when absent.
add_patient(q, patient_id) ==
    IF \E i \in 1..Len(q) : q[i] = patient_id THEN q ELSE Append(q, patient_id)

\* A remove_patient that fills the hole with the last patient.
remove_patient_swap(q, patient_id) ==
    LET i == IndexOf(q, patient_id) IN
    IF i = 0 THEN q
    ELSE IF i = Len(q) THEN SubSeq(q, 1, Len(q) - 1)
    ELSE SubSeq([q EXCEPT ![i] = q[Len(q)]], 1, Len(q) - 1)

\* OPDQueue.remove_patient: list.remove of the first occurrence when
\* present.
remove_patient(q, patient_id) ==
    LET i == IndexOf(q, patient_id) IN
    IF i = 0 THEN q
    ELSE SubSeq(q, 1, i - 1) \o SubSeq(q, i + 1, Len(q))

\* OPDQueue.get_next_patient: queue[0], or None (the empty tuple here).
get_next_patient(q) == IF q # <<>> THEN <<q[1]>> ELSE <<>>

\* A position counted from 0.
get_queue_position_from_zero(q, patient_id) ==
    IF IndexOf(q, patient_id) > 0 THEN IndexOf(q, patient_id) - 1 ELSE -1

\* OPDQueue.get_queue_position: queue.index(patient_id) + 1, or -1 on
\* ValueError.
get_queue_position(q, patient_id) ==
    IF IndexOf(q, patient_id) > 0 THEN (IndexOf(q, patient_id) - 1) + 1 ELSE -1

\* A completion recorded at the front of the list.
mark_patient_completed_first(done, name) ==
    <<[name |-> name, announced |-> FALSE]>> \o done

\* OPDQueue.mark_patient_completed: one more record, not announced. (The
\* clock reading completed_at is left out: nothing reads it.)
mark_patient_completed(done, name) ==
    Append(done, [name |-> name, announced |-> FALSE])

\* A mark_announced without the break.
mark_announced_all(done, name) ==
    [i \in 1..Len(done) |->
        IF done[i].name = name THEN [done[i] EXCEPT !.announced = TRUE]
        ELSE done[i]]

\* OPDQueue.mark_announced: the first record of the name not yet announced
\* is flagged, and the loop breaks.
mark_announced(done, name) ==
    LET hits == {i \in 1..Len(done) : done[i].name = name /\ ~done[i].announced}
    IN  IF hits = {} THEN done
        ELSE [done EXCEPT ![CHOOSE i \in hits : \A j \in hits : i <= j].announced = TRUE]

\* OPDQueue.get_pending_announcements
get_pending_announcements(done) ==
    SelectSeq(done, LAMBDA patient : ~patient.announced)

\* The calls of the queue, each leaving its name, argument and result in op
\* (tick tells a call from the one before it).
Call(name, arg, position, next) ==
    op' = [name |-> name, arg |-> arg, position |-> position, next |-> next,
           result |-> <<>>, tick |-> ~op.tick]

QueueFrame ==
    UNCHANGED <<opd_visits, patients, book, extras, engine, thr, ui_pc, ghosts>>

AddPatient(patient_id) ==
    /\ queue' = add_patient(queue, patient_id)
    /\ Call("add_patient", patient_id, 0, <<>>)
    /\ UNCHANGED completed_today
    /\ QueueFrame

RemovePatient(patient_id) ==
    /\ queue' = remove_patient(queue, patient_id)
    /\ Call("remove_patient", patient_id, 0, <<>>)
    /\ UNCHANGED completed_today
    /\ QueueFrame

GetNextPatient ==
    /\ Call("get_next_patient", "", 0, get_next_patient(queue))
    /\ UNCHANGED <<queue, completed_today>>
    /\ QueueFrame

GetQueuePosition(patient_id) ==
    /\ Call("get_queue_position", patient_id,
            get_queue_position(queue, patient_id), <<>>)
    /\ UNCHANGED <<queue, completed_today>>
    /\ QueueFrame

MarkPatientCompleted(name) ==
    /\ Len(completed_today) < MaxCompleted
    /\ completed_today' = mark_patient_completed(completed_today, name)
    /\ Call("mark_patient_completed", name, 0, <<>>)
    /\ UNCHANGED queue
    /\ QueueFrame

MarkAnnounced(name) ==
    /\ completed_today' = mark_announced(completed_today, name)
    /\ Call("mark_announced", name, 0, <<>>)
    /\ UNCHANGED queue
    /\ QueueFrame

GetPendingAnnouncements ==
    /\ op' = [name |-> "get_pending_announcements", arg |-> "", position |-> 0,
              next |-> <<>>, result |-> get_pending_announcements(completed_today),
              tick |-> ~op.tick]
    /\ UNCHANGED <<queue, completed_today>>
    /\ QueueFrame

\* A reset of the day that takes the engine's announced set with it.
clear_completed_today_and_announced ==
    /\ completed_today' = <<>>
    /\ queue' = <<>>
    /\ announced_patients' = {}
    /\ Call("clear_completed_today", "", 0, <<>>)
    /\ UNCHANGED <<opd_visits, patients, book, extras, is_running, announcement_thread,
                   announcement_interval, tts_available, thr, ui_pc, ghosts>>

\* OPDQueue.clear_completed_today: both lists are emptied.
clear_completed_today ==
    /\ completed_today' = <<>>
    /\ queue' = <<>>
    /\ Call("clear_completed_today", "", 0, <<>>)
    /\ QueueFrame

\* ------------------------------------------------------------- OPD screen
NewVisit(vid, pid, st) ==
    [visit_id |-> vid, patient_id |-> pid, status |-> st, today |-> TRUE]

\* The id a visit created now receives: OPDVisit.generate_visit_id reads
\* the clock, to the second.
NextVisitId == generate_visit_id(now)

\* The visits a run has room for: one per counter of the display sink.
VisitRoom == Cardinality(DOMAIN screen_count)

\* A second passes.
Tick ==
    /\ now < MaxClock
    /\ now' = now + 1
    /\ UNCHANGED <<opd_visits, patients, book, opd_queue, settings,
                   announcement_queue, engine, thr, ui_pc, ghosts>>

\* The values of the status box of the visit form.
VisitStatuses == {"In Progress", "Completed", "Follow-up Required"}

\* DataManager.save_opd_visit: replace the stored visit of the same id, or
\* append.
save_opd_visit(visit) ==
    LET i == VisitIndex(visit.visit_id) IN
    IF i > 0 THEN [opd_visits EXCEPT ![i] = visit]
    ELSE Append(opd_visits, visit)

\* quick_checkin_patient(): a stored patient without an active visit today
\* gets a new visit, In Progress.
quick_checkin_patient(pid) ==
    /\ ui_pc = "idle"
    /\ Len(opd_visits) < VisitRoom
    /\ pid \in patients
    /\ IF \E i \in 1..Len(opd_visits) :
            /\ opd_visits[i].today
            /\ opd_visits[i].patient_id = pid
            /\ opd_visits[i].status = "In Progress"
       THEN UNCHANGED <<opd_visits, queue>>
       ELSE /\ opd_visits' = save_opd_visit(NewVisit(NextVisitId, pid, "In Progress"))
            /\ queue' = IF get_patient_by_id(pid) THEN add_patient(queue, pid)
                        ELSE queue
    /\ UNCHANGED <<book, extras, completed_today, op, patients, engine, thr, ui_pc,
                   ghosts>>

\* When the visit's patient is on file: the patient goes from the waiting
\* queue to the completed list, and the completion message of the OPD
\* screen goes out through add_manual_announcement.
AnnounceFromScreen(visit) ==
    IF get_patient_by_id(visit.patient_id)
    THEN /\ Len(completed_today) < MaxCompleted
         /\ completed_today' = mark_patient_completed(
                completed_today, patient_name(visit.patient_id))
         /\ queue' = remove_patient(queue, visit.patient_id)
         /\ add_manual_announcement(visit.patient_id)
         /\ Called
         /\ screen_count' = [screen_count EXCEPT ![visit.visit_id] = Bump(@)]
    ELSE UNCHANGED <<screen_count, manual_count, manual_calls, queue,
                     completed_today>>

\* complete_selected_visit(): the visit picked in the list is marked
\* Completed, saved and announced.
complete_selected_visit(vid) ==
    /\ ui_pc = "idle"
    /\ VisitIndex(vid) > 0
    /\ LET visit == [opd_visits[VisitIndex(vid)] EXCEPT !.status = "Completed"] IN
       /\ opd_visits' = save_opd_visit(visit)
       /\ AnnounceFromScreen(visit)
    /\ UNCHANGED <<book, extras, op, patients, engine, thr, ui_pc, poll_count,
                   last_call, last_request, reannounce>>

\* The visit save_visit builds from the form: the visit loaded by
\* edit_visit (current) with the form's patient and status, or a new visit
\* (current = "") under the id new_visit read from the clock.
FormVisit(current, selection, status) ==
    IF current # ""
    THEN [opd_visits[VisitIndex(current)] EXCEPT !.patient_id = selection,
                                                 !.status = status]
    ELSE NewVisit(NextVisitId, selection, status)

\* save_visit(): nothing is stored when no patient is selected or the
\* validation fails; else the visit of the form is stored, with the status
\* the form shows, and the form is cleared.
save_visit(current, selection, status, valid) ==
    /\ ui_pc = "idle"
    /\ current = "" => Len(opd_visits) < VisitRoom
    /\ current # "" => VisitIndex(current) > 0
    /\ IF selection = "" \/ ~valid
       THEN UNCHANGED <<opd_visits, reannounce>>
       ELSE /\ opd_visits' = save_opd_visit(FormVisit(current, selection, status))
            /\ reannounce' = reannounce \cap
                   EligibleKeys(save_opd_visit(FormVisit(current, selection, status)),
                                patients)
    /\ UNCHANGED <<book, extras, opd_queue, patients, engine, thr, ui_pc, sinks,
                   history>>

\* complete_visit(): the form is saved first. A save that stores the visit
\* clears the form, the id with it, so that no visit is found to complete.
\* When the save stores nothing, the stored visit of the form's id (the one
\* loaded by edit_visit) is marked Completed, saved and announced.
complete_visit(current, selection, status, valid) ==
    /\ ui_pc = "idle"
    /\ current = "" => Len(opd_visits) < VisitRoom
    /\ current # "" => VisitIndex(current) > 0
    /\ IF selection # "" /\ valid
       THEN /\ opd_visits' = save_opd_visit(FormVisit(current, selection, status))
            /\ reannounce' = reannounce \cap
                   EligibleKeys(save_opd_visit(FormVisit(current, selection, status)),
                                patients)
            /\ UNCHANGED <<sinks, manual_calls, queue, completed_today>>
       ELSE IF current # ""
       THEN LET visit == [opd_visits[VisitIndex(current)]
                            EXCEPT !.status = "Completed"]
            IN  /\ opd_visits' = save_opd_visit(visit)
                /\ AnnounceFromScreen(visit)
                /\ UNCHANGED <<poll_count, reannounce>>
       ELSE UNCHANGED <<opd_visits, sinks, manual_calls, reannounce, queue,
                        completed_today>>
    /\ UNCHANGED <<book, extras, op, patients, engine, thr, ui_pc, last_call,
                   last_request>>

\* ---------------------------------------------------------- patient screen
\* PatientManagementFrame.save_patient -> DataManager.save_patient
save_patient(pid) ==
    /\ ui_pc = "idle"
    /\ pid \notin patients
    /\ patients' = patients \cup {pid}
    /\ UNCHANGED <<book, extras, opd_queue, opd_visits, engine, thr, ui_pc, ghosts>>

\* PatientManagementFrame.delete_patient -> DataManager.delete_patient
delete_patient(pid) ==
    /\ ui_pc = "idle"
    /\ pid \in patients
    /\ patients' = patients \ {pid}
    /\ reannounce' = reannounce \cap EligibleKeys(opd_visits, patients \ {pid})
    /\ UNCHANGED <<book, extras, opd_queue, opd_visits, engine, thr, ui_pc, sinks, history>>

\* The date changes: OPDVisit.is_today() turns false for the stored visits.
Midnight ==
    /\ ui_pc = "idle"
    /\ \E i \in 1..Len(opd_visits) : opd_visits[i].today
    /\ opd_visits' = [i \in 1..Len(opd_visits) |->
                        [opd_visits[i] EXCEPT !.today = FALSE]]
    /\ reannounce' = {}
    /\ UNCHANGED <<book, extras, opd_queue, patients, engine, thr, ui_pc, sinks, history>>

\* ------------------------------------------------------- appointment book
Appointment(appointment_id, patient_id, doctor_name, appointment_date, appointment_time, status) ==
    [appointment_id |-> appointment_id, patient_id |-> patient_id,
     doctor_name |-> doctor_name, appointment_date |-> appointment_date,
     appointment_time |-> appointment_time, status |-> status]

\* Appointment.generate_appointment_id: a letter and the digits of the clock
\* reading.
generate_appointment_id(n) == "A" \o ToString(n)

Statuses == {"Scheduled", "Completed", "Cancelled", "No-Show"}
BookedDoctors == {"Dr. Smith", "Dr. Johnson"}
AskedDoctors == BookedDoctors \cup {"Dr. Who"}
Dates == {"2026-11-05", "2026-11-06"}
Times == {"09:00", "10:00", "12:00"}

Range(seq) == {seq[i] : i \in 1..Len(seq)}

Blocking == {"Scheduled", "Completed"}

\* Every status blocks the slot.
get_available_slots_any_status(doctor_name, date, existing_appointments) ==
    LET found == {i \in 1..Len(DEFAULT_DOCTORS) :
                    DEFAULT_DOCTORS[i].name = doctor_name}
        doctor_slots ==
            IF found = {} THEN <<>>
            ELSE DEFAULT_DOCTORS[CHOOSE i \in found : \A j \in found : i <= j].slots
        Booked(appointment) ==
            /\ appointment.doctor_name = doctor_name
            /\ appointment.appointment_date = date
        booked == SelectSeq(existing_appointments, Booked)
        booked_slots == {booked[i].appointment_time : i \in 1..Len(booked)}
        Free(slot) == slot \notin booked_slots
    IN  SelectSeq(doctor_slots, Free)

\* DoctorSchedule.get_available_slots: the slots of the first doctor of that
\* name (none: the empty list), without the times booked for the doctor on
\* the date by a Scheduled or Completed appointment, in template order.
get_available_slots(doctor_name, date, existing_appointments) ==
    LET found == {i \in 1..Len(DEFAULT_DOCTORS) :
                    DEFAULT_DOCTORS[i].name = doctor_name}
        doctor_slots ==
            IF found = {} THEN <<>>
            ELSE DEFAULT_DOCTORS[CHOOSE i \in found : \A j \in found : i <= j].slots
        Booked(appointment) ==
            /\ appointment.doctor_name = doctor_name
            /\ appointment.appointment_date = date
            /\ appointment.status \in Blocking
        booked == SelectSeq(existing_appointments, Booked)
        booked_slots == {booked[i].appointment_time : i \in 1..Len(booked)}
        Free(slot) == slot \notin booked_slots
    IN  SelectSeq(doctor_slots, Free)

\* DataManager.get_appointment_by_id as an index into the stored list
\* (0: None).
AppointmentIndex(appointment_id) ==
    IF \E i \in 1..Len(appointments) :
            appointments[i].appointment_id = appointment_id
    THEN CHOOSE i \in 1..Len(appointments) :
            /\ appointments[i].appointment_id = appointment_id
            /\ \A j \in 1..(i - 1) : appointments[j].appointment_id # appointment_id
    ELSE 0

\* DataManager.save_appointment: replace the stored appointment of the same
\* id, or append.
StoreAppointment(appointment) ==
    LET i == AppointmentIndex(appointment.appointment_id) IN
    IF i > 0 THEN [appointments EXCEPT ![i] = appointment]
    ELSE Append(appointments, appointment)

\* The id a new appointment receives: Appointment.generate_appointment_id
\* reads the clock, to the second.
NextAppointmentId == generate_appointment_id(now)

\* The conflict check of the form: another stored appointment, Scheduled or
\* Completed, holds the doctor's slot.
Conflicts(appointment) ==
    \E i \in 1..Len(appointments) :
        /\ appointments[i].appointment_id # appointment.appointment_id
        /\ appointments[i].doctor_name = appointment.doctor_name
        /\ appointments[i].appointment_date = appointment.appointment_date
        /\ appointments[i].appointment_time = appointment.appointment_time
        /\ appointments[i].status \in Blocking

\* AppointmentSchedulingFrame.save_appointment: the form holds a stored
\* appointment (current: edit_appointment) or a new one (current = "").
\* Nothing is stored without a patient, when validation fails or on a
\* conflict.
save_appointment(current, patient_selection, doctor_name, date_str, time_str, status, valid) ==
    /\ ui_pc = "idle"
    /\ current = "" => Len(appointments) < MaxAppointments
    /\ current # "" => AppointmentIndex(current) > 0
    /\ LET appointment ==
               Appointment(IF current = "" THEN NextAppointmentId ELSE current,
                           patient_selection, doctor_name, date_str, time_str,
                           status)
       IN  IF patient_selection = "" \/ ~valid \/ Conflicts(appointment)
           THEN UNCHANGED appointments
           ELSE appointments' = StoreAppointment(appointment)
    /\ UNCHANGED <<opd_visits, patients, available_slots, opd_queue, extras,
                   engine, thr, ui_pc, ghosts>>

\* AppointmentSchedulingFrame.cancel_appointment: the appointment picked in
\* the list, once the question is answered yes, is stored as Cancelled.
cancel_appointment(appointment_id, result) ==
    /\ ui_pc = "idle"
    /\ AppointmentIndex(appointment_id) > 0
    /\ IF result
       THEN appointments' = StoreAppointment(
                [appointments[AppointmentIndex(appointment_id)]
                    EXCEPT !.status = "Cancelled"])
       ELSE UNCHANGED appointments
    /\ UNCHANGED <<opd_visits, patients, available_slots, opd_queue, extras,
                   engine, thr, ui_pc, ghosts>>

\* AppointmentSchedulingFrame.mark_appointment_completed: the appointment
\* picked in the list is stored as Completed.
mark_appointment_completed(appointment_id) ==
    /\ ui_pc = "idle"
    /\ AppointmentIndex(appointment_id) > 0
    /\ appointments' = StoreAppointment(
            [appointments[AppointmentIndex(appointment_id)]
                EXCEPT !.status = "Completed"])
    /\ UNCHANGED <<opd_visits, patients, available_slots, opd_queue, extras,
                   engine, thr, ui_pc, ghosts>>

\* The slots offered latest first.
update_available_slots_reversed(doctor_name, date_str) ==
    LET slots == get_available_slots(doctor_name, date_str, appointments) IN
    /\ ui_pc = "idle"
    /\ available_slots' =
            [doctor_name |-> doctor_name, date |-> date_str, called |-> TRUE,
             slots |-> [i \in 1..Len(slots) |-> slots[Len(slots) + 1 - i]]]
    /\ UNCHANGED <<opd_visits, patients, appointments, opd_queue, extras,
                   engine, thr, ui_pc, ghosts>>

\* AppointmentSchedulingFrame.update_available_slots with a doctor and a
\* date in the form: the stored appointments are read and the time box is
\* filled with the free slots.
update_available_slots(doctor_name, date_str) ==
    /\ ui_pc = "idle"
    /\ available_slots' =
            [doctor_name |-> doctor_name, date |-> date_str, called |-> TRUE,
             slots |-> get_available_slots(doctor_name, date_str, appointments)]
    /\ UNCHANGED <<opd_visits, patients, appointments, opd_queue, extras,
                   engine, thr, ui_pc, ghosts>>

\* ------------------------------------------------------------ specifications
LoopSteps == \E t \in ThreadIds : announcement_loop(t)

\* The engine, the OPD screen and the patient screen.
Next ==
    \/ LoopSteps
    \/ start_announcement_service
    \/ StopBegin
    \/ StopReturn
    \/ clear_announced_patients
    \/ \E p \in PatientIds : ManualAnnouncement(p)
    \/ \E p \in PatientIds : PatientCall(p)
    \/ TestAnnouncement
    \/ \E p \in PatientIds : quick_checkin_patient(p)
    \/ \E v \in VisitIds : complete_selected_visit(v)
    \/ \E p \in PatientIds : save_patient(p)
    \/ \E p \in PatientIds : delete_patient(p)

Spec == Init /\ [][Next]_vars

\* The OPD screen: visits are checked in, edited in the form and saved,
\* and completed from the form or from the list.
NextVisits ==
    \/ \E p \in PatientIds : quick_checkin_patient(p)
    \/ \E c \in VisitIds \cup {""}, p \in PatientIds \cup {""},
          st \in VisitStatuses, ok \in BOOLEAN :
            save_visit(c, p, st, ok)
    \/ \E c \in VisitIds \cup {""}, p \in PatientIds \cup {""},
          st \in VisitStatuses, ok \in BOOLEAN :
            complete_visit(c, p, st, ok)
    \/ \E v \in VisitIds : complete_selected_visit(v)
    \/ \E p \in PatientIds : save_patient(p)
    \/ \E p \in PatientIds : delete_patient(p)
    \/ \E p \in PatientIds : PatientCall(p)
    \/ clear_completed_today

SpecVisits == Init /\ [][NextVisits]_vars

\* The service and its configuration: the interval is set while the loop
\* runs, stops and restarts over visits being completed.
IntervalInputs == {-5, 0, 5, 9, 10, 11, 45}

NextConfig ==
    \/ LoopSteps
    \/ start_announcement_service
    \/ StopBegin
    \/ StopReturn
    \/ \E s \in IntervalInputs : set_announcement_interval(s)
    \/ \E p \in PatientIds : quick_checkin_patient(p)
    \/ \E v \in VisitIds : complete_selected_visit(v)

SpecConfig == Init /\ [][NextConfig]_vars

\* The loop under a fair scheduler: a thread that can take a step (a sleep
\* that ends, a statement to run) eventually takes it.
NextLoop ==
    \/ LoopSteps
    \/ start_announcement_service
    \/ StopBegin
    \/ StopReturn
    \/ \E p \in PatientIds : quick_checkin_patient(p)
    \/ \E v \in VisitIds : complete_selected_visit(v)

FairSpec ==
    /\ Init
    /\ [][NextLoop]_vars
    /\ \A t \in ThreadIds : WF_vars(announcement_loop(t))

\* The slot finder over appointment lists of every shape: other doctors,
\* other dates, times outside the template, every status, repeated slots.
AppointmentLists ==
    UNION {{[i \in 1..n |->
                Appointment(generate_appointment_id(i), generate_patient_id(1),
                            f[i][1], f[i][2], f[i][3], f[i][4])] :
            f \in [1..n -> BookedDoctors \X Dates \X Times \X Statuses]} :
           n \in 0..MaxAppointments}

InitSlots ==
    /\ EngineInit
    /\ QueueInit
    /\ DeskInit
    /\ appointments \in AppointmentLists
    /\ available_slots = NoQuery

NextSlots ==
    \E d \in AskedDoctors, date \in Dates : update_available_slots(d, date)

SpecSlots == InitSlots /\ [][NextSlots]_vars

\* The appointment screen: appointments are made, edited, cancelled and
\* marked completed, as the seconds pass.
AppointmentIds == {generate_appointment_id(n) : n \in 1..MaxClock}
FormDate == "2026-11-05"
FormTimes == {"09:00", "10:00"}

NextBook ==
    \/ \E current \in AppointmentIds \cup {""}, p \in PatientIds \cup {""},
          d \in BookedDoctors, t \in FormTimes, st \in Statuses,
          valid \in BOOLEAN :
            save_appointment(current, p, d, FormDate, t, st, valid)
    \/ \E a \in AppointmentIds, result \in BOOLEAN : cancel_appointment(a, result)
    \/ \E a \in AppointmentIds : mark_appointment_completed(a)
    \/ Tick

SpecBook == Init /\ [][NextBook]_vars

\* The OPD queue under every sequence of its calls.
QueuedIds == {generate_patient_id(n) : n \in 1..MaxQueued}
QueueNames == {patient_name(generate_patient_id(n)) : n \in 1..2}

NextQueue ==
    \/ \E p \in QueuedIds : AddPatient(p)
    \/ \E p \in QueuedIds : RemovePatient(p)
    \/ GetNextPatient
    \/ \E p \in QueuedIds : GetQueuePosition(p)
    \/ \E n \in QueueNames : MarkPatientCompleted(n)
    \/ \E n \in QueueNames : MarkAnnounced(n)
    \/ GetPendingAnnouncements
    \/ clear_completed_today

SpecQueue == Init /\ [][NextQueue]_vars

\* One loop through a day at the OPD desk: patients are checked in and
\* their visits completed, the queue and the announced set are cleared. The
\* service is started and not stopped, so one loop thread runs.
NextDay ==
    \/ LoopSteps
    \/ start_announcement_service
    \/ \E p \in PatientIds : quick_checkin_patient(p)
    \/ \E v \in VisitIds : complete_selected_visit(v)
    \/ clear_completed_today
    \/ clear_announced_patients

SpecDay == Init /\ [][NextDay]_vars

\* The poll cycle over two visits of two patients that the store holds when
\* the program starts, each of any status, with patients on file
\* or not; patients are saved and deleted, visits completed and the date
\* changes while the one loop runs.
MaxStored == 2

StoredNums == 1..MaxStored
StoredPatientIds == {generate_patient_id(n) : n \in StoredNums}
StoredVisitIds == {generate_visit_id(n) : n \in StoredNums}
StoredKeys ==
    {pid \o "_" \o vid : pid \in StoredPatientIds, vid \in StoredVisitIds}

InitCycle ==
    /\ opd_visits \in
            {[n \in StoredNums |->
                NewVisit(generate_visit_id(n), generate_patient_id(n), st[n])] :
             st \in [StoredNums -> VisitStatuses]}
    /\ patients \in SUBSET StoredPatientIds
    /\ poll_count = [k \in StoredKeys |-> 0]
    /\ screen_count = [v \in StoredVisitIds |-> 0]
    /\ ServiceInit
    /\ BookInit
    /\ QueueInit
    /\ DeskInit

NextCycle ==
    \/ LoopSteps
    \/ start_announcement_service
    \/ \E v \in StoredVisitIds : complete_selected_visit(v)
    \/ \E p \in StoredPatientIds : save_patient(p)
    \/ \E p \in StoredPatientIds : delete_patient(p)
    \/ Midnight

SpecCycle == InitCycle /\ [][NextCycle]_vars

\* The ids the clock hands out: visits are checked in and completed while
\* the seconds pass. datetime.now() is the local wall clock, which also
\* steps back (the end of daylight saving time, a corrected clock).
ClockVisitIds == {generate_visit_id(n) : n \in 1..MaxClock}
ClockKeys == {pid \o "_" \o vid : pid \in StoredPatientIds, vid \in ClockVisitIds}

InitIds ==
    /\ opd_visits = <<>>
    /\ patients \in SUBSET StoredPatientIds
    /\ poll_count = [k \in ClockKeys |-> 0]
    /\ screen_count = [v \in ClockVisitIds |-> 0]
    /\ ServiceInit
    /\ BookInit
    /\ QueueInit
    /\ DeskInit

ClockSetBack ==
    /\ now > 1
    /\ now' \in 1..(now - 1)
    /\ UNCHANGED <<opd_visits, patients, book, opd_queue, settings,
                   announcement_queue, engine, thr, ui_pc, ghosts>>

NextIds ==
    \/ \E p \in StoredPatientIds : quick_checkin_patient(p)
    \/ \E v \in ClockVisitIds : complete_selected_visit(v)
    \/ \E p \in StoredPatientIds : save_patient(p)
    \/ \E p \in StoredPatientIds : delete_patient(p)
    \/ Tick
    \/ ClockSetBack

SpecIds == InitIds /\ [][NextIds]_vars

\* The application starts over the settings an earlier session has saved.
\* ui_pc = "starting": the engine is constructed and MainWindow.__init__
\* has not yet reached its end.
StoredIntervals == {10, 30, 45}
StoredSettings ==
    {[announcement_enabled |-> e, announcement_interval |-> i] :
        e \in BOOLEAN, i \in StoredIntervals}

InitStartup ==
    /\ opd_visits = <<>>
    /\ patients \in SUBSET PatientIds
    /\ poll_count = [k \in Keys |-> 0]
    /\ screen_count = [v \in VisitIds |-> 0]
    /\ is_running = FALSE
    /\ announcement_thread = NoThread
    /\ announced_patients = {}
    /\ announcement_interval = DefaultInterval
    /\ tts_available \in BOOLEAN
    /\ thr = [t \in ThreadIds |-> NoLoop]
    /\ ui_pc = "starting"
    /\ manual_count = 0
    /\ manual_calls = 0
    /\ last_call = "none"
    /\ last_request = <<>>
    /\ reannounce = {}
    /\ BookInit
    /\ QueueInit
    /\ now = 1
    /\ settings \in StoredSettings
    /\ announcement_queue = <<>>

\* MainWindow.__init__, after the engine is constructed: the service is
\* started; no setting is read.
MainWindow_init ==
    /\ ui_pc = "starting"
    /\ ui_pc' = "idle"
    /\ last_call' = "start"
    /\ LET t == CHOOSE f \in FreeSlots : \A g \in FreeSlots : f <= g IN
       /\ is_running' = TRUE
       /\ thr' = [thr EXCEPT ![t] = [NoLoop EXCEPT !.pc = "check"]]
       /\ announcement_thread' = t
    /\ UNCHANGED <<store, announced_patients, announcement_interval,
                   tts_available, sinks, manual_calls, last_request, reannounce>>

\* save_settings() of the settings window: an interval under 10 is
\* refused and nothing is saved; else the settings are written and the
\* interval is handed to the engine.
save_settings(interval, enabled) ==
    /\ ui_pc = "idle"
    /\ IF interval < MinInterval
       THEN UNCHANGED <<settings, announcement_interval, last_request>>
       ELSE /\ settings' = [announcement_enabled |-> enabled,
                            announcement_interval |-> interval]
            /\ announcement_interval' = Max(MinInterval, interval)
            /\ last_request' = <<interval>>
    /\ UNCHANGED <<opd_visits, patients, book, opd_queue, now, announcement_queue,
                   is_running, announcement_thread, announced_patients,
                   tts_available, thr, ui_pc, sinks, manual_calls, last_call,
                   reannounce>>

NextStartup ==
    \/ MainWindow_init
    \/ \E i \in IntervalInputs, e \in BOOLEAN : save_settings(i, e)
    \/ LoopSteps
    \/ \E p \in PatientIds : quick_checkin_patient(p)
    \/ \E v \in VisitIds : complete_selected_visit(v)

SpecStartup == InitStartup /\ [][NextStartup]_vars

\* ------------------------------------------------------ AnnouncementQueue
\* The priorities add_to_queue is called with (0 is the default).
Priorities == {0, 1, 2}

\* The number of the next item to arrive. (It stands for added_at, which
\* nothing reads: the items of one patient and priority are told apart by
\* it.)
NextArrival ==
    1 + Max(0, CHOOSE m \in {0} \cup {announcement_queue[i].arrival :
                                        i \in 1..Len(announcement_queue)} :
                    \A i \in 1..Len(announcement_queue) :
                        announcement_queue[i].arrival <= m)

\* An insertion in front of the first item of the same or a lower priority.
add_to_queue_ge(q, patient_id, priority, arrival) ==
    LET item == [patient_name |-> patient_name(patient_id),
                 patient_id |-> patient_id, priority |-> priority,
                 announced |-> FALSE, arrival |-> arrival]
        lower == {i \in 1..Len(q) : priority >= q[i].priority}
    IN  IF lower = {} THEN Append(q, item)
        ELSE LET i == CHOOSE m \in lower : \A n \in lower : m <= n
             IN  SubSeq(q, 1, i - 1) \o <<item>> \o SubSeq(q, i, Len(q))

\* AnnouncementQueue.add_to_queue: the item goes in front of the first item
\* of a lower priority, or to the end.
add_to_queue(q, patient_id, priority, arrival) ==
    LET item == [patient_name |-> patient_name(patient_id),
                 patient_id |-> patient_id, priority |-> priority,
                 announced |-> FALSE, arrival |-> arrival]
        lower == {i \in 1..Len(q) : priority > q[i].priority}
    IN  IF lower = {} THEN Append(q, item)
        ELSE LET i == CHOOSE m \in lower : \A n \in lower : m <= n
             IN  SubSeq(q, 1, i - 1) \o <<item>> \o SubSeq(q, i, Len(q))

\* The positions of the items not yet announced, of one patient or of all.
WaitingItems(q) == {i \in 1..Len(q) : ~q[i].announced}
WaitingItemsOf(q, patient_id) ==
    {i \in 1..Len(q) : q[i].patient_id = patient_id /\ ~q[i].announced}

\* AnnouncementQueue.get_next_announcement: the first item not announced,
\* or None (the empty tuple here).
get_next_announcement(q) ==
    IF WaitingItems(q) = {} THEN <<>>
    ELSE <<q[CHOOSE i \in WaitingItems(q) : \A j \in WaitingItems(q) : i <= j]>>

\* AnnouncementQueue.mark_announced: the first item of the patient not yet
\* announced is flagged, and the loop breaks.
AnnouncementQueue_mark_announced(q, patient_id) ==
    IF WaitingItemsOf(q, patient_id) = {} THEN q
    ELSE [q EXCEPT ![CHOOSE i \in WaitingItemsOf(q, patient_id) :
                        \A j \in WaitingItemsOf(q, patient_id) : i <= j].announced = TRUE]

\* AnnouncementQueue.remove_from_queue
remove_from_queue(q, patient_id) ==
    SelectSeq(q, LAMBDA item : item.patient_id # patient_id)

\* AnnouncementQueue.get_queue_status
get_queue_status(q) ==
    LET total == Len(q)
        announced == Cardinality({i \in 1..Len(q) : q[i].announced})
    IN  [total_in_queue |-> total, announced |-> announced,
         pending |-> total - announced, queue_items |-> q]

\* The calls of the announcement queue, each leaving its name, arguments
\* and result in op.
QueueCall(name, arg, priority, result) ==
    op' = [name |-> name, arg |-> arg, position |-> priority, next |-> <<>>,
           result |-> result, tick |-> ~op.tick]

AnnouncementFrame ==
    UNCHANGED <<opd_visits, patients, book, queue, completed_today, now,
                settings, engine, thr, ui_pc, ghosts>>

AddToQueue(patient_id, priority) ==
    /\ Len(announcement_queue) < MaxItems
    /\ NextArrival <= MaxArrivals
    /\ announcement_queue' =
            add_to_queue(announcement_queue, patient_id, priority, NextArrival)
    /\ QueueCall("add_to_queue", patient_id, priority, <<>>)
    /\ AnnouncementFrame

GetNextAnnouncement ==
    /\ QueueCall("get_next_announcement", "", 0,
                 get_next_announcement(announcement_queue))
    /\ UNCHANGED announcement_queue
    /\ AnnouncementFrame

MarkItemAnnounced(patient_id) ==
    /\ announcement_queue' =
            AnnouncementQueue_mark_announced(announcement_queue, patient_id)
    /\ QueueCall("mark_announced", patient_id, 0, <<>>)
    /\ AnnouncementFrame

RemoveFromQueue(patient_id) ==
    /\ announcement_queue' = remove_from_queue(announcement_queue, patient_id)
    /\ QueueCall("remove_from_queue", patient_id, 0, <<>>)
    /\ AnnouncementFrame

GetQueueStatus ==
    /\ QueueCall("get_queue_status", "", 0, get_queue_status(announcement_queue))
    /\ UNCHANGED announcement_queue
    /\ AnnouncementFrame

\* AnnouncementQueue.clear_queue
AnnouncementQueue_clear_queue ==
    /\ announcement_queue' = <<>>
    /\ QueueCall("clear_queue", "", 0, <<>>)
    /\ AnnouncementFrame

NextAnnounce ==
    \/ \E p \in StoredPatientIds, pr \in Priorities : AddToQueue(p, pr)
    \/ GetNextAnnouncement
    \/ \E p \in StoredPatientIds : MarkItemAnnounced(p)
    \/ \E p \in StoredPatientIds : RemoveFromQueue(p)
    \/ GetQueueStatus
    \/ AnnouncementQueue_clear_queue

SpecAnnounce == Init /\ [][NextAnnounce]_vars

\* The manual announcements next to one loop: visits are checked in and
\* completed, messages are sent by hand, the announced set is cleared.

NextManual ==
    \/ LoopSteps
    \/ start_announcement_service
    \/ \E p \in PatientIds : quick_checkin_patient(p)
    \/ \E v \in VisitIds : complete_selected_visit(v)
    \/ \E p \in PatientIds : ManualAnnouncement(p)
    \/ \E p \in PatientIds : PatientCall(p)
    \/ \E p \in PatientIds, position \in {1, 2} : QueueUpdate(p, position)
    \/ TestAnnouncement
    \/ clear_announced_patients

SpecManual == Init /\ [][NextManual]_vars

\* -------------------------------------------------------------- properties
AliveThreads == {t \in ThreadIds : Alive(t)}

\* C1: without a clear in between, the display sink accepts at most one
\* poll-triggered completion message for a (patient_id, visit_id).
C1_OnePollMessagePerKey == \A k \in Keys : poll_count[k] <= 1

\* C2: two poll cycles of the engine never run at the same time.
C2_NoConcurrentCycles ==
    \A t1, t2 \in ThreadIds : t1 # t2 => ~(InCycle(t1) /\ InCycle(t2))

\* C3: when one sink fails on a poll message, the other sink is still tried
\* and the thread goes on to add the key.
C3_SinkFailureIsolated ==
    \A t \in ThreadIds :
        /\ thr[t].sink.display = "raised" =>
                /\ tts_available => thr[t].sink.speech \in {"ok", "raised"}
                /\ thr[t].pc = "add"
        /\ thr[t].sink.speech = "raised" =>
                /\ thr[t].sink.display = "ok"
                /\ thr[t].pc = "add"

\* C4: a loop thread ends only on reading a cleared is_running flag, which
\* only stop clears; after an error in a cycle it comes back to start the
\* next cycle unless the service has been stopped.
C4_OnlyStopEndsLoop ==
    /\ [][/\ \A t \in ThreadIds :
                (thr[t].pc # "none" /\ thr'[t].pc = "none") =>
                    (~is_running /\ thr[t].pc = "check")
          /\ (is_running /\ ~is_running') =>
                (ui_pc = "idle" /\ (ui_pc' = "join" \/ last_call' = "stop"))]_vars
    /\ \A t \in ThreadIds :
            (thr[t].pc = "err_sleep") ~> (thr[t].pc = "fetch" \/ ~is_running)

\* The only loop thread has caught the error of a display callback that
\* raised, and the service has not been stopped.
C4_Witness ==
    \E t \in ThreadIds :
        /\ thr[t].pc = "err_sleep"
        /\ thr[t].sink.display = "raised"
        /\ is_running
        /\ last_call = "start"
        /\ AliveThreads = {t}

\* C5: the first cycle that starts after a clear and runs to its end has
\* announced, exactly once, every key announced before the clear whose visit
\* is still eligible.
C5_ReannouncedAfterClear ==
    \A t \in ThreadIds :
        (thr[t].pc = "sleep" /\ thr[t].fresh) =>
            \A k \in reannounce : poll_count[k] = 1

\* C6: a visit completed once through the OPD screen has its completion
\* shown once in total, the screen's message and the poll's counted together.
C6_CompletionShownOnce ==
    \A i \in 1..Len(opd_visits) :
        screen_count[opd_visits[i].visit_id] = 1 =>
            screen_count[opd_visits[i].visit_id]
                + poll_count[announcement_key(opd_visits[i])] = 1

\* C7: the status reports not running for a new engine, running after
\* start, and not running once stop has returned; a stopped engine starts
\* again.
C7_StatusFollowsCalls ==
    /\ last_call = "none" => ~get_announcement_status.is_running
    /\ (last_call = "start" /\ ui_pc = "idle") => get_announcement_status.is_running
    /\ last_call = "stop" => ~get_announcement_status.is_running

C7_Witness ==
    /\ last_call = "start"
    /\ get_announcement_status.is_running
    /\ Cardinality(AliveThreads) = 2

\* C8: a loop that was asleep when stop was called has ended before its
\* sleep runs out: it never wakes.
C8_EndsBeforeWake ==
    \A t \in ThreadIds : ~(thr[t].pc = "check" /\ thr[t].stop_asleep)

\* C9: the interval is 30 until it is set, then the value asked for raised
\* to 10 when below; it is never under 10, and the status reports it.
C9_IntervalClamped ==
    /\ announcement_interval >= 10
    /\ get_announcement_status.announcement_interval = announcement_interval
    /\ last_request = <<>> => announcement_interval = 30
    /\ last_request # <<>> =>
            announcement_interval =
                (IF last_request[1] < 10 THEN 10 ELSE last_request[1])

C9_Witness ==
    /\ last_request = <<5>>
    /\ get_announcement_status.announcement_interval = 10
    /\ is_running

\* C10: the display sink has received one message per call of a manual
\* operation, whatever is_running and the announced set were at the calls.
C10_OneMessagePerManualCall == manual_count = manual_calls

C10_Witness ==
    /\ manual_calls = 2
    /\ manual_count = 2
    /\ ~is_running
    /\ announced_patients # {}
    /\ screen_count = [v \in VisitIds |-> 0]

\* The slots of the template of a doctor name (none: the empty list), read
\* from the table the class defines.
Template(doctor_name) ==
    IF \E i \in 1..Len(DEFAULT_DOCTORS) : DEFAULT_DOCTORS[i].name = doctor_name
    THEN DEFAULT_DOCTORS[CHOOSE i \in 1..Len(DEFAULT_DOCTORS) :
                            DEFAULT_DOCTORS[i].name = doctor_name].slots
    ELSE <<>>

KnownDoctor(doctor_name) ==
    \E i \in 1..Len(DEFAULT_DOCTORS) : DEFAULT_DOCTORS[i].name = doctor_name

\* C11: for a known doctor a template slot is offered exactly when no
\* Scheduled or Completed appointment of that doctor holds it on that date,
\* and nothing outside the template is offered; an unknown doctor is offered
\* nothing.
C11_SlotFreeIffNotBooked ==
    available_slots.called =>
        LET q == available_slots IN
        IF KnownDoctor(q.doctor_name)
        THEN /\ Range(q.slots) \subseteq Range(Template(q.doctor_name))
             /\ \A t \in Range(Template(q.doctor_name)) :
                    t \in Range(q.slots) <=>
                        ~\E i \in 1..Len(appointments) :
                            /\ appointments[i].doctor_name = q.doctor_name
                            /\ appointments[i].appointment_date = q.date
                            /\ appointments[i].appointment_time = t
                            /\ appointments[i].status \in {"Scheduled", "Completed"}
        ELSE q.slots = <<>>

\* A Cancelled and a No-Show appointment hold a slot that is offered, while
\* a Scheduled one has taken another slot away.
C11_Witness ==
    /\ available_slots.called
    /\ available_slots.doctor_name = "Dr. Smith"
    /\ available_slots.slots # Template("Dr. Smith")
    /\ \E i \in 1..Len(appointments) :
            /\ appointments[i].doctor_name = "Dr. Smith"
            /\ appointments[i].appointment_date = available_slots.date
            /\ appointments[i].status \in {"Cancelled", "No-Show"}
            /\ appointments[i].appointment_time \in Range(available_slots.slots)

RECURSIVE IsSubsequence(_, _)
IsSubsequence(s, t) ==
    IF s = <<>> THEN TRUE
    ELSE IF t = <<>> THEN FALSE
    ELSE IF Head(s) = Head(t) THEN IsSubsequence(Tail(s), Tail(t))
    ELSE IsSubsequence(s, Tail(t))

\* C12: the slots offered are a subsequence of the doctor's template, in
\* template order and without repeats; a call leaves the stored
\* appointments as they are (the table of doctors is a definition that
\* nothing assigns), and asking again for the same doctor and date gives
\* the same list.
C12_TemplateOrderNoEffect ==
    /\ [](/\ IsSubsequence(available_slots.slots,
                            Template(available_slots.doctor_name))
          /\ \A i, j \in 1..Len(available_slots.slots) :
                i # j => available_slots.slots[i] # available_slots.slots[j])
    /\ [][/\ appointments' = appointments
          /\ (/\ available_slots.called
              /\ available_slots'.doctor_name = available_slots.doctor_name
              /\ available_slots'.date = available_slots.date)
                => available_slots'.slots = available_slots.slots]_vars

\* With 10:00 booked, the slots before and after it are offered in the
\* order of the template.
C12_Witness ==
    /\ available_slots.called
    /\ available_slots.doctor_name = "Dr. Smith"
    /\ available_slots.slots = <<"09:00", "11:00", "14:00", "15:00", "16:00">>

\* C13: no two stored appointments of one doctor hold the same date and
\* time while both are Scheduled or Completed.
C13_NoDoubleBooking ==
    \A i, j \in 1..Len(appointments) :
        (/\ i # j
         /\ appointments[i].doctor_name = appointments[j].doctor_name
         /\ appointments[i].appointment_date = appointments[j].appointment_date
         /\ appointments[i].appointment_time = appointments[j].appointment_time)
            => ~(/\ appointments[i].status \in {"Scheduled", "Completed"}
                 /\ appointments[j].status \in {"Scheduled", "Completed"})

\* The place of a patient in the waiting queue, counted from 1 (0: not
\* waiting).
Place(q, p) ==
    IF \E i \in 1..Len(q) : q[i] = p
    THEN CHOOSE i \in 1..Len(q) : q[i] = p /\ \A j \in 1..(i - 1) : q[j] # p
    ELSE 0

\* C14: the waiting queue never holds a patient id twice, and an add_patient
\* of a patient already waiting changes neither list.
C14_AddIdempotentNoDuplicates ==
    /\ [](\A i, j \in 1..Len(queue) : i # j => queue[i] # queue[j])
    /\ [][(op'.name = "add_patient" /\ Place(queue, op'.arg) > 0) =>
            (queue' = queue /\ completed_today' = completed_today)]_vars

\* add_patient was last called for a patient who waits, once, behind others.
C14_Witness ==
    /\ op.name = "add_patient"
    /\ Place(queue, op.arg) = 1
    /\ Len(queue) = 3

\* C15: add_patient of a new id puts it last; remove_patient takes the
\* patient out and keeps the order of the others, and does nothing when the
\* patient is absent; the place of a patient who stays waiting never grows
\* and goes down, by one, exactly when a patient ahead is removed.
C15_FirstInFirstOut ==
    [][/\ (op'.name = "add_patient" /\ Place(queue, op'.arg) = 0) =>
            queue' = queue \o <<op'.arg>>
       /\ (op'.name = "remove_patient" /\ Place(queue, op'.arg) = 0) =>
            queue' = queue
       /\ (op'.name = "remove_patient" /\ Place(queue, op'.arg) > 0) =>
            /\ Place(queue', op'.arg) = 0
            /\ Len(queue') = Len(queue) - 1
            /\ \A a, b \in Range(queue) \ {op'.arg} :
                    /\ Place(queue', a) > 0
                    /\ Place(queue, a) < Place(queue, b) =>
                            Place(queue', a) < Place(queue', b)
       /\ \A p \in Range(queue) \cap Range(queue') :
            /\ Place(queue', p) \in {Place(queue, p), Place(queue, p) - 1}
            /\ Place(queue', p) = Place(queue, p) - 1 <=>
                    /\ op'.name = "remove_patient"
                    /\ Place(queue, op'.arg) \in 1..(Place(queue, p) - 1)]_vars

\* The patient in the middle of three was removed: the last one moved up.
C15_Witness ==
    /\ op.name = "remove_patient"
    /\ op.arg = generate_patient_id(2)
    /\ queue = <<generate_patient_id(1), generate_patient_id(3)>>

\* C16: get_queue_position gives the place of the patient counted from 1,
\* or -1 when the patient does not wait; get_next_patient gives the patient
\* in place 1, or None exactly when nobody waits; neither changes a list.
C16_PositionAndNext ==
    /\ [](/\ op.name = "get_queue_position" =>
                op.position = (IF Place(queue, op.arg) > 0
                               THEN Place(queue, op.arg) ELSE -1)
          /\ op.name = "get_next_patient" =>
                /\ op.next = <<>> <=> queue = <<>>
                /\ queue # <<>> =>
                        Len(op.next) = 1 /\ Place(queue, op.next[1]) = 1)
    /\ [][op'.name \in {"get_queue_position", "get_next_patient"} =>
            (queue' = queue /\ completed_today' = completed_today)]_vars

\* The position of the second of two waiting patients was asked for.
C16_Witness ==
    /\ op.name = "get_queue_position"
    /\ op.position = 2
    /\ Len(queue) = 2
    /\ completed_today # <<>>

Pending(done, name) ==
    {i \in 1..Len(done) : done[i].name = name /\ ~done[i].announced}

\* C17: mark_announced flags the earliest record of the name that is not
\* yet announced and nothing else; without such a record it changes
\* nothing; each call takes exactly one record off the pending ones of the
\* name, so k pending records take k calls.
C17_MarkAnnouncedFirstMatch ==
    [][op'.name = "mark_announced" =>
        /\ queue' = queue
        /\ Len(completed_today') = Len(completed_today)
        /\ IF Pending(completed_today, op'.arg) = {}
           THEN completed_today' = completed_today
           ELSE LET first == CHOOSE i \in Pending(completed_today, op'.arg) :
                        \A j \in Pending(completed_today, op'.arg) : i <= j
                IN  /\ completed_today'[first] =
                            [name |-> op'.arg, announced |-> TRUE]
                    /\ \A i \in 1..Len(completed_today) :
                            i # first => completed_today'[i] = completed_today[i]
                    /\ Cardinality(Pending(completed_today', op'.arg)) =
                            Cardinality(Pending(completed_today, op'.arg)) - 1]_vars

\* Of two records of one name, the call has flagged the first and left the
\* second pending.
C17_Witness ==
    /\ op.name = "mark_announced"
    /\ Len(completed_today) = 2
    /\ completed_today[1] = [name |-> op.arg, announced |-> TRUE]
    /\ completed_today[2] = [name |-> op.arg, announced |-> FALSE]

\* C18: clear_completed_today empties the waiting queue and the completed
\* list and leaves the announced set alone, so that with one loop a key is
\* announced once however often the queue is cleared; the announced set is
\* emptied without a change to the queue or the completed list.
C18_ClearsAreSeparate ==
    /\ [](\A k \in Keys : poll_count[k] <= 1)
    /\ [][(op' # op /\ op'.name = "clear_completed_today") =>
            /\ queue' = <<>>
            /\ completed_today' = <<>>
            /\ announced_patients' = announced_patients
            /\ poll_count' = poll_count]_vars
    /\ [][(announced_patients # {} /\ announced_patients' = {}) =>
            (queue' = queue /\ completed_today' = completed_today)]_vars

\* After a clear of the queue, a later cycle of the loop meets the visit it
\* announced before and finds its key in the announced set.
C18_Witness ==
    /\ op.name = "clear_completed_today"
    /\ queue = <<>>
    /\ completed_today = <<>>
    /\ \E t \in ThreadIds :
            /\ thr[t].pc = "scan"
            /\ thr[t].completed_visits # <<>>
            /\ announcement_key(Head(thr[t].completed_visits)) \in announced_patients
            /\ poll_count[announcement_key(Head(thr[t].completed_visits))] = 1

\* C19: a scan that finds the patient of a Completed visit missing goes on
\* to the next visit of the cycle with no message delivered and no key
\* added; a key is in the announced set only after its message; a scan
\* that finds the patient goes on to announce the visit.
C19_UnresolvedPatientSkipped ==
    /\ [](\A k \in announced_patients : poll_count[k] >= 1)
    /\ [][\A t \in ThreadIds :
            (/\ thr[t].pc = "scan"
             /\ thr[t].completed_visits # <<>>
             /\ thr'[t] # thr[t]
             /\ thr'[t].pc # "err_sleep"
             /\ announcement_key(Head(thr[t].completed_visits))
                    \notin announced_patients) =>
                IF Head(thr[t].completed_visits).patient_id \in patients
                THEN thr'[t].pc = "announce"
                ELSE /\ thr'[t].pc = "scan"
                     /\ thr'[t].completed_visits = Tail(thr[t].completed_visits)
                     /\ poll_count' = poll_count
                     /\ announced_patients' = announced_patients]_vars

\* The first of two visits Completed before the program started has been
\* passed over, its patient not on file, and the cycle is at the second.
C19_Witness ==
    \E t \in ThreadIds :
        /\ thr[t].pc = "scan"
        /\ Len(thr[t].completed_visits) = 1
        /\ Head(thr[t].completed_visits).visit_id = generate_visit_id(2)
        /\ opd_visits[1].status = "Completed"
        /\ opd_visits[1].patient_id \notin patients
        /\ announcement_key(opd_visits[1]) \notin announced_patients
        /\ poll_count[announcement_key(opd_visits[1])] = 0
        /\ manual_calls = 0

\* C20: an error that aborts a cycle leaves the thread alive, the service
\* running and the announced set and the messages delivered as they were;
\* the next cycle reads all of today's Completed visits again; with the keys
\* kept, no visit is announced a second time.
C20_AbortedCycleRetried ==
    /\ [](\A k \in DOMAIN poll_count : poll_count[k] <= 1)
    /\ [][\A t \in ThreadIds :
            /\ (InCycle(t) /\ thr'[t].pc = "err_sleep") =>
                    /\ is_running' = is_running
                    /\ announced_patients' = announced_patients
                    /\ poll_count' = poll_count
            /\ (thr[t].pc = "err_sleep" /\ thr'[t] # thr[t]) =>
                    /\ thr'[t].pc = "check"
                    /\ announced_patients' = announced_patients
            /\ (thr[t].pc = "fetch" /\ thr'[t].pc = "scan") =>
                    thr'[t].completed_visits =
                        SelectSeq(get_todays_opd_visits, IsCompleted)]_vars

\* A cycle has announced the first visit and was aborted before the second,
\* which is still to be announced.
C20_Witness ==
    \E t \in ThreadIds :
        /\ thr[t].pc = "err_sleep"
        /\ is_running
        /\ poll_count[announcement_key(opd_visits[1])] = 1
        /\ announcement_key(opd_visits[1]) \in announced_patients
        /\ announcement_key(opd_visits[2]) \in EligibleKeys(opd_visits, patients)
        /\ poll_count[announcement_key(opd_visits[2])] = 0

\* C21: the visits a cycle works on are those its read of the store found
\* dated today and Completed; a poll message is delivered, and a key added,
\* only for the visit the cycle is at; a visit that was never Completed has
\* no poll message and no key; a visit Completed by the time of a cycle's
\* read is among the visits of that cycle.
C21_OnlyTodaysCompletedAnnounced ==
    /\ [](/\ \A t \in ThreadIds : \A i \in 1..Len(thr[t].completed_visits) :
                /\ thr[t].completed_visits[i].status = "Completed"
                /\ thr[t].completed_visits[i].today
          /\ \A i \in 1..Len(opd_visits) :
                opd_visits[i].status # "Completed" =>
                    /\ poll_count[announcement_key(opd_visits[i])] = 0
                    /\ announcement_key(opd_visits[i]) \notin announced_patients)
    /\ [][/\ \A t \in ThreadIds :
                (thr[t].pc = "fetch" /\ thr'[t].pc = "scan") =>
                    \A i \in 1..Len(opd_visits) :
                        (opd_visits[i].today /\ opd_visits[i].status = "Completed")
                            <=> \E j \in 1..Len(thr'[t].completed_visits) :
                                    thr'[t].completed_visits[j] = opd_visits[i]
          /\ \A k \in DOMAIN poll_count :
                (poll_count'[k] > poll_count[k] \/
                 (k \in announced_patients' /\ k \notin announced_patients)) =>
                    \E t \in ThreadIds :
                        /\ thr[t].pc \in {"announce", "add"}
                        /\ k = announcement_key(Head(thr[t].completed_visits))]_vars

\* An earlier cycle announced the second visit and passed the first; the
\* first has since been completed at the desk and the cycle under way is
\* announcing it.
C21_Witness ==
    \E t \in ThreadIds :
        /\ thr[t].pc = "add"
        /\ Head(thr[t].completed_visits) = opd_visits[1]
        /\ screen_count[opd_visits[1].visit_id] = 1
        /\ poll_count[announcement_key(opd_visits[1])] = 1
        /\ announcement_key(opd_visits[2]) \in announced_patients
        /\ opd_visits[1].patient_id \in patients
        /\ manual_calls = 1

\* C22: a manual announcement leaves the announced set, is_running, the
\* interval, the status and every loop thread as they were, and the poll
\* messages delivered too; the announced set grows only by the key of a
\* visit whose poll message the cycle has just delivered.
C22_ManualLeavesEngineAlone ==
    /\ [][manual_calls' # manual_calls =>
            /\ announced_patients' = announced_patients
            /\ is_running' = is_running
            /\ announcement_interval' = announcement_interval
            /\ get_announcement_status' = get_announcement_status
            /\ thr' = thr
            /\ poll_count' = poll_count]_vars
    /\ [][(announced_patients' \ announced_patients) # {} =>
            /\ manual_calls' = manual_calls
            /\ \E t \in ThreadIds :
                    /\ thr[t].pc = "add"
                    /\ thr[t].sink.display = "ok"
                    /\ announced_patients' = announced_patients \cup
                            {announcement_key(Head(thr[t].completed_visits))}]_vars

\* The desk announced the completion by hand and another message was sent
\* by hand; the poll cycle has delivered its own message for the visit and
\* the status still counts none announced.
C22_Witness ==
    /\ manual_calls = 2
    /\ manual_count = 2
    /\ get_announcement_status.announced_today = 0
    /\ \E t \in ThreadIds :
            /\ thr[t].pc = "add"
            /\ screen_count[Head(thr[t].completed_visits).visit_id] = 1
            /\ poll_count[announcement_key(Head(thr[t].completed_visits))] = 1

\* C23: start and stop leave a thread inside a cycle where it is; with the
\* flag cleared the cycle goes on as it would otherwise: the visit found
\* unannounced with its patient on file is announced and its key added; the
\* flag is read only between cycles, where the thread ends when it is
\* cleared; a thread inside a cycle of a stopped service ends, unless the
\* service is started again.
C23_StopLetsCycleFinish ==
    /\ [][\A t \in ThreadIds :
            /\ (InCycle(t) /\ (is_running' # is_running \/ ui_pc' # ui_pc)) =>
                    thr'[t] = thr[t]
            /\ (InCycle(t) /\ ~is_running /\ thr'[t] # thr[t]
                    /\ thr'[t].pc # "err_sleep") =>
                    LET todo == thr[t].completed_visits IN
                    CASE thr[t].pc = "fetch" -> thr'[t].pc = "scan"
                      [] thr[t].pc = "scan" ->
                            IF todo = <<>> THEN thr'[t].pc = "sleep"
                            ELSE IF /\ announcement_key(Head(todo)) \notin announced_patients
                                    /\ Head(todo).patient_id \in patients
                            THEN thr'[t].pc = "announce"
                            ELSE /\ thr'[t].pc = "scan"
                                 /\ thr'[t].completed_visits = Tail(todo)
                      [] thr[t].pc = "announce" ->
                            /\ thr'[t].pc = "add"
                            /\ poll_count'[announcement_key(Head(todo))] =
                                    Bump(poll_count[announcement_key(Head(todo))])
                      [] thr[t].pc = "add" ->
                            /\ thr'[t].pc = "scan"
                            /\ announcement_key(Head(todo)) \in announced_patients'
                            /\ thr'[t].completed_visits = Tail(todo)
            /\ (thr[t].pc = "check" /\ thr'[t] # thr[t]) =>
                    thr'[t].pc = (IF is_running THEN "fetch" ELSE "none")]_vars
    /\ \A t \in ThreadIds :
            (InCycle(t) /\ ~is_running) ~> (thr[t].pc = "none" \/ is_running)

\* Stop has returned, its join timed out with the cycle at a message; the
\* cycle has delivered the message since and is about to add the key.
C23_Witness ==
    \E t \in ThreadIds :
        /\ ~is_running
        /\ last_call = "stop"
        /\ ui_pc = "idle"
        /\ thr[t].pc = "add"
        /\ poll_count[announcement_key(Head(thr[t].completed_visits))] = 1
        /\ announcement_key(Head(thr[t].completed_visits)) \notin announced_patients

\* The positions of the records not yet announced.
Unannounced(done) == {i \in 1..Len(done) : ~done[i].announced}

\* C25: mark_patient_completed(name) puts one record of the name, not
\* announced, at the end of completed_today and changes no other; no call
\* but clear_completed_today takes a record out or moves one, and no call
\* but mark_patient_completed adds one; an announced flag stays set; and
\* get_pending_announcements returns the records not announced, in the
\* order of the list.
C25_CompletedTodayAppendOnly ==
    [][/\ (op' # op /\ op'.name = "mark_patient_completed") =>
            /\ Len(completed_today') = Len(completed_today) + 1
            /\ completed_today'[Len(completed_today')] =
                    [name |-> op'.arg, announced |-> FALSE]
       /\ (op' # op /\ op'.name # "mark_patient_completed") =>
            Len(completed_today') <= Len(completed_today)
       /\ (op' # op /\ op'.name # "clear_completed_today") =>
            /\ Len(completed_today') >= Len(completed_today)
            /\ \A i \in 1..Len(completed_today) :
                    /\ completed_today'[i].name = completed_today[i].name
                    /\ completed_today[i].announced => completed_today'[i].announced
       /\ (op' # op /\ op'.name = "get_pending_announcements") =>
            /\ completed_today' = completed_today
            /\ Len(op'.result) = Cardinality(Unannounced(completed_today))
            /\ \A k \in 1..Len(op'.result) :
                    op'.result[k] =
                        completed_today[CHOOSE i \in Unannounced(completed_today) :
                            Cardinality({j \in Unannounced(completed_today) : j < i}) = k - 1]
      ]_vars

\* The pending records are asked for with an announced record ahead of a
\* pending one of another name.
C25_Witness ==
    /\ op.name = "get_pending_announcements"
    /\ Len(completed_today) = 2
    /\ completed_today[1].announced
    /\ ~completed_today[2].announced
    /\ completed_today[1].name # completed_today[2].name
    /\ op.result = <<completed_today[2]>>

\* C24: a stored visit stays stored under its id, and once its status is
\* Completed the status stays Completed.
C24_CompletedIsTerminal ==
    [][\A i \in 1..Len(opd_visits) :
        /\ Len(opd_visits') >= i
        /\ opd_visits'[i].visit_id = opd_visits[i].visit_id
        /\ opd_visits[i].status = "Completed" =>
                opd_visits'[i].status = "Completed"]_vars

\* C26: a visit newly created never takes the place of a stored one: every
\* stored visit keeps its place, its id and its patient, and its status
\* changes only to Completed.
C26_GeneratedIdsUnique ==
    [][\A i \in 1..Len(opd_visits) :
        /\ Len(opd_visits') >= i
        /\ opd_visits'[i].visit_id = opd_visits[i].visit_id
        /\ opd_visits'[i].patient_id = opd_visits[i].patient_id
        /\ opd_visits'[i].status \in {opd_visits[i].status, "Completed"}]_vars

\* C27: when the main window is constructed, the engine's interval is the
\* stored interval (at least 10) and the loop runs only if announcements
\* are enabled in the settings.
C27_SettingsPushedAtStartup ==
    [][(ui_pc = "starting" /\ ui_pc' = "idle") =>
        /\ announcement_interval' = Max(MinInterval, settings.announcement_interval)
        /\ is_running' => settings.announcement_enabled]_vars

\* C28: from the return of stop_announcement_service() until the service is
\* started again, the loop delivers no completion message and the
\* announced set does not grow.
C28_SilentAfterStopReturns ==
    [][(last_call = "stop" /\ ui_pc = "idle" /\ last_call' = "stop") =>
        /\ \A k \in Keys : poll_count'[k] <= poll_count[k]
        /\ announced_patients' \subseteq announced_patients]_vars

\* C29: for a doctor of the table, a date and the stored appointments, a
\* slot of the doctor's template is among the slots offered exactly when
\* the conflict check of the form lets a new appointment at that slot
\* through.
C29_SlotsAgreeWithConflictCheck ==
    \A d \in BookedDoctors, date \in Dates :
        \A t \in Range(Template(d)) :
            t \in Range(get_available_slots(d, date, appointments)) <=>
                ~Conflicts(Appointment(NextAppointmentId, generate_patient_id(1),
                                       d, date, t, "Scheduled"))

\* C30: the items of the announcement queue stand in order of priority,
\* highest first, and among equal priorities in order of arrival;
\* get_next_announcement returns the first item not announced, None when
\* there is none; mark_announced(id) flags the first item of the patient
\* not yet announced and changes nothing else; get_queue_status counts the
\* announced and the pending items, which add up to the total.
C30_AnnouncementQueueOrder ==
    /\ [](\A i, j \in 1..Len(announcement_queue) :
            i < j =>
                /\ announcement_queue[i].priority >= announcement_queue[j].priority
                /\ announcement_queue[i].priority = announcement_queue[j].priority =>
                        announcement_queue[i].arrival < announcement_queue[j].arrival)
    /\ [][(op' # op /\ op'.name = "get_next_announcement") =>
            /\ announcement_queue' = announcement_queue
            /\ IF \A i \in 1..Len(announcement_queue) : announcement_queue[i].announced
               THEN op'.result = <<>>
               ELSE \E i \in 1..Len(announcement_queue) :
                        /\ op'.result = <<announcement_queue[i]>>
                        /\ ~announcement_queue[i].announced
                        /\ \A j \in 1..(i - 1) : announcement_queue[j].announced]_vars
    /\ [][(op' # op /\ op'.name = "mark_announced") =>
            /\ Len(announcement_queue') = Len(announcement_queue)
            /\ IF \E i \in 1..Len(announcement_queue) :
                    /\ announcement_queue[i].patient_id = op'.arg
                    /\ ~announcement_queue[i].announced
               THEN \E i \in 1..Len(announcement_queue) :
                        /\ announcement_queue[i].patient_id = op'.arg
                        /\ ~announcement_queue[i].announced
                        /\ \A j \in 1..(i - 1) :
                                announcement_queue[j].patient_id = op'.arg =>
                                    announcement_queue[j].announced
                        /\ announcement_queue' =
                                [announcement_queue EXCEPT ![i].announced = TRUE]
               ELSE announcement_queue' = announcement_queue]_vars
    /\ [][(op' # op /\ op'.name = "remove_from_queue") =>
            /\ IsSubsequence(announcement_queue', announcement_queue)
            /\ \A i \in 1..Len(announcement_queue') :
                    announcement_queue'[i].patient_id # op'.arg
            /\ Len(announcement_queue') =
                    Cardinality({i \in 1..Len(announcement_queue) :
                                    announcement_queue[i].patient_id # op'.arg})]_vars
    /\ [][(op' # op /\ op'.name = "get_queue_status") =>
            /\ announcement_queue' = announcement_queue
            /\ op'.result.total_in_queue = Len(announcement_queue)
            /\ op'.result.announced =
                    Cardinality({i \in 1..Len(announcement_queue) :
                                    announcement_queue[i].announced})
            /\ op'.result.pending =
                    Cardinality({i \in 1..Len(announcement_queue) :
                                    ~announcement_queue[i].announced})
            /\ op'.result.total_in_queue =
                    op'.result.announced + op'.result.pending]_vars

\* Three items: the one of the highest priority arrived last and stands
\* first, announced; the two others have one priority and stand in order
\* of arrival; the next announcement asked for is the second item.
C30_Witness ==
    /\ op.name = "get_next_announcement"
    /\ Len(announcement_queue) = 3
    /\ announcement_queue[1].priority > announcement_queue[2].priority
    /\ announcement_queue[2].priority = announcement_queue[3].priority
    /\ announcement_queue[1].arrival > announcement_queue[3].arrival
    /\ announcement_queue[2].arrival < announcement_queue[3].arrival
    /\ announcement_queue[1].announced
    /\ ~announcement_queue[2].announced
    /\ op.result = <<announcement_queue[2]>>

====
